---- MODULE Spec2Model ----
(***************************************************************************)
(* kerberos-sspi: the GSSAPI-style negotiation layer of src/kerberos.py    *)
(* over the SSPI providers sspi.ClientAuth / sspi.ServerAuth.              *)
(*                                                                         *)
(* Two specifications:                                                     *)
(*   Spec          the context API (authGSS{Client,Server}{Init,Step,      *)
(*                 Response,Clean}) applied in any order to one client     *)
(*                 context and one server context;                         *)
(*   ValidateSpec  the round-trip helper validate(), one provider call     *)
(*                 per step.                                               *)
(* The module is Python 2 code (encodestring/decodestring on str).         *)
(***************************************************************************)
EXTENDS Integers, Sequences, FiniteSets, TLC

VARIABLES
    cctx,     \* the client context dict: ca, service, gssflags, response
    sctx,     \* the server context dict: ca, service, response
    last,     \* the most recent API call: what it was given, what came back
    resets,   \* how often each context's provider has been reset()
    vpc,      \* validate: position in the function body
    vca,      \* validate: local ca
    vsa,      \* validate: local sa
    verr,     \* validate: local err
    vdata,    \* validate: local data
    vresult,  \* validate: local result
    vlog      \* validate: what the calls made so far did (rounds, inputs, errors)

vars == <<cctx, sctx, last, resets, vpc, vca, vsa, verr, vdata, vresult, vlog>>
apiVars == <<cctx, sctx, last, resets>>
validateVars == <<vpc, vca, vsa, verr, vdata, vresult, vlog>>

----------------------------------------------------------------------------
(* Bounds of the model.                                                    *)

\* longest security token (bytes) a provider round produces
MaxTokLen == 2
\* provider resets counted per context (the count saturates here)
MaxResets == 2
\* rounds of validate's loop that are explored
MaxLoop == 12

----------------------------------------------------------------------------
(* Python values.  Every value is a record [kind, val]; val is a sequence  *)
(* (bytes of a byte string, characters of a text, the one number of an     *)
(* int) so that values of different kinds can be compared.                 *)

PyNone == [kind |-> "None", val |-> <<>>]
PyStr(chars) == [kind |-> "str", val |-> chars]
PyInt(n) == [kind |-> "int", val |-> <<n>>]
\* a PySecBufferDesc holding one buffer; val is that buffer's .Buffer
SecBufferDesc(bytes) == [kind |-> "SecBufferDesc", val |-> bytes]

\* `x if challenge else y`: None and the empty string are false
Truthy(v) == v.kind # "None" /\ ~(v.kind = "str" /\ v.val = <<>>)

----------------------------------------------------------------------------
(* Result codes and flags.                                                 *)

AUTH_GSS_CONTINUE == 0
AUTH_GSS_COMPLETE == 1

GSS_C_DELEG_FLAG == 1
GSS_C_MUTUAL_FLAG == 2
GSS_C_SEQUENCE_FLAG == 8

\* flag bitsets handed to authGSSClientInit (bit-or of distinct bits)
FlagInputs ==
    { GSS_C_MUTUAL_FLAG + GSS_C_SEQUENCE_FLAG,
      GSS_C_DELEG_FLAG + GSS_C_MUTUAL_FLAG + GSS_C_SEQUENCE_FLAG }

\* service principals, as texts
Services == { <<"h","t","t","p","@","a">>, <<"i","m","a","p","@","b">> }

\* names the module binds at import time (lines 17-21) and by its own
\* def/class/assignment statements
ModuleNames ==
    { "win32security", "sys", "sspicon", "ClientAuth", "ServerAuth",
      "encodestring", "decodestring",
      "KrbError", "BasicAuthError", "GSSError",
      "AUTH_GSS_CONTINUE", "AUTH_GSS_COMPLETE",
      "GSS_C_DELEG_FLAG", "GSS_C_MUTUAL_FLAG", "GSS_C_REPLAY_FLAG",
      "GSS_C_SEQUENCE_FLAG", "GSS_C_CONF_FLAG", "GSS_C_INTEG_FLAG",
      "GSS_C_ANON_FLAG", "GSS_C_PROT_READY_FLAG", "GSS_C_TRANS_FLAG" }

----------------------------------------------------------------------------
(* Security tokens: byte strings of length 0..MaxTokLen, one per length:   *)
(* the bytes 77, 160, 243, 70, ... (each the one before plus 83, mod 256). *)

Token(n) == [i \in 1..n |-> (77 + 83 * (i - 1)) % 256]
Tokens == { Token(n) : n \in 0..MaxTokLen }

----------------------------------------------------------------------------
(* Token codec: base64.encodestring / base64.decodestring of Python 2,     *)
(* i.e. binascii.b2a_base64 per 57-byte chunk and binascii.a2b_base64.     *)
(* A text is a sequence of one-character strings.                          *)

NL == "\n"
PAD == "="

B64Alphabet ==
    << "A","B","C","D","E","F","G","H","I","J","K","L","M","N","O","P",
       "Q","R","S","T","U","V","W","X","Y","Z","a","b","c","d","e","f",
       "g","h","i","j","k","l","m","n","o","p","q","r","s","t","u","v",
       "w","x","y","z","0","1","2","3","4","5","6","7","8","9","+","/" >>

B64Char(sextet) == B64Alphabet[sextet + 1]
IsB64Char(c) == \E i \in 1..64 : B64Alphabet[i] = c
B64Value(c) == (CHOOSE i \in 1..64 : B64Alphabet[i] = c) - 1

\* base64.MAXBINSIZE: bytes of input per output line
MAXBINSIZE == 57

\* the base64 quads of a byte string, the last one padded
RECURSIVE B64Quads(_)
B64Quads(bytes) ==
    IF Len(bytes) = 0 THEN <<>>
    ELSE IF Len(bytes) = 1 THEN
        << B64Char(bytes[1] \div 4), B64Char((bytes[1] % 4) * 16), PAD, PAD >>
    ELSE IF Len(bytes) = 2 THEN
        << B64Char(bytes[1] \div 4),
           B64Char((bytes[1] % 4) * 16 + bytes[2] \div 16),
           B64Char((bytes[2] % 16) * 4), PAD >>
    ELSE
        << B64Char(bytes[1] \div 4),
           B64Char((bytes[1] % 4) * 16 + bytes[2] \div 16),
           B64Char((bytes[2] % 16) * 4 + bytes[3] \div 64),
           B64Char(bytes[3] % 64) >>
        \o B64Quads(SubSeq(bytes, 4, Len(bytes)))

\* binascii.b2a_base64: one line of base64, newline-terminated
b2a_base64(bytes) == B64Quads(bytes) \o <<NL>>

\* base64.encodestring: one b2a_base64 line per MAXBINSIZE bytes of input;
\* no line at all for empty input
RECURSIVE encodestring(_)
encodestring(bytes) ==
    IF Len(bytes) = 0 THEN <<>>
    ELSE IF Len(bytes) <= MAXBINSIZE THEN b2a_base64(bytes)
    ELSE b2a_base64(SubSeq(bytes, 1, MAXBINSIZE))
         \o encodestring(SubSeq(bytes, MAXBINSIZE + 1, Len(bytes)))

\* a replace that leaves the text as it is
replace_Nothing(text, old) == text

\* str.replace(old, "") for a one-character old
replace(text, old) == SelectSeq(text, LAMBDA c : c # old)

\* binascii_find_valid(s, slen, 1) from position i: the first valid base64
\* character (the pad character counts as valid) after position i, or "" 
RECURSIVE FindValidAfter(_, _)
FindValidAfter(text, i) ==
    IF i >= Len(text) THEN ""
    ELSE IF IsB64Char(text[i + 1]) \/ text[i + 1] = PAD THEN text[i + 1]
    ELSE FindValidAfter(text, i + 1)

\* binascii.a2b_base64, the loop over the input from position i on.
\* quad is quad_pos, bits is leftbits, acc is leftchar, out the bytes so far.
\* The result is [ok, val]: ok is FALSE for "Incorrect padding".
RECURSIVE a2b_loop(_, _, _, _, _, _)
a2b_loop(text, i, quad, bits, acc, out) ==
    IF i > Len(text) THEN [ok |-> bits = 0, val |-> out]
    ELSE LET c == text[i] IN
        IF c = PAD THEN
            IF quad < 2 \/ (quad = 2 /\ FindValidAfter(text, i) # PAD)
            THEN a2b_loop(text, i + 1, quad, bits, acc, out)
            ELSE [ok |-> TRUE, val |-> out]
        ELSE IF ~IsB64Char(c) THEN
            a2b_loop(text, i + 1, quad, bits, acc, out)
        ELSE
            LET acc1 == acc * 64 + B64Value(c)
                bits1 == bits + 6
            IN  IF bits1 >= 8
                THEN a2b_loop(text, i + 1, (quad + 1) % 4, bits1 - 8,
                              acc1 % (2 ^ (bits1 - 8)),
                              Append(out, (acc1 \div (2 ^ (bits1 - 8))) % 256))
                ELSE a2b_loop(text, i + 1, (quad + 1) % 4, bits1, acc1, out)

\* base64.decodestring
decodestring(text) == a2b_loop(text, 1, 0, 0, 0, <<>>)

\* the text a Response operation makes of a token (lines 186, 269)
WireText(bytes) == replace(encodestring(bytes), NL)

\* challenge arguments given to the Step operations: None, "", the wire
\* text of every token, and a text that is not base64 (one sextet:
\* incorrect padding)
Challenges ==
    {PyNone, PyStr(<<>>), PyStr(<<"A">>)}
        \cup { PyStr(WireText(t)) : t \in Tokens }

\* decodestring on the challenge texts, tabulated
Decoded == [c \in {ch.val : ch \in Challenges} |-> decodestring(c)]

----------------------------------------------------------------------------
(* The SSPI providers (sspi.ClientAuth, sspi.ServerAuth of pywin32), seen  *)
(* through the three calls the module makes: the constructor, authorize    *)
(* and reset.  What one authorization round answers is the provider's      *)
(* choice: it raises, or it returns (err, sec_buffer).                     *)

\* sspi.ClientAuth(pkg_name, auth_info=..., targetspn=..., scflags=...)
ClientAuth(pkg_name, auth_info, targetspn, scflags) ==
    [ cls |-> "ClientAuth", pkg_name |-> pkg_name, auth_info |-> auth_info,
      spn |-> targetspn, scflags |-> scflags, ctxt |-> FALSE ]

\* sspi.ServerAuth(pkg_name, spn=...)
ServerAuth(pkg_name, spn) ==
    [ cls |-> "ServerAuth", pkg_name |-> pkg_name, auth_info |-> PyNone,
      spn |-> spn, scflags |-> PyNone, ctxt |-> FALSE ]

\* err values of a round that returns: 0 (SEC_E_OK, done), 590610
\* (SEC_I_CONTINUE_NEEDED) and a failure status (SEC_E_LOGON_DENIED)
ProviderCodes == {0, 590610, -2146893044}

\* what one call of authorize can do
ProviderOutcomes ==
    { [raised |-> TRUE, err |-> 0, buf |-> <<>>] }
        \cup { [raised |-> FALSE, err |-> e, buf |-> t] :
                   e \in ProviderCodes, t \in Tokens }

\* the outcome recorded for a call that never reached the provider
NoRound == [raised |-> FALSE, err |-> 0, buf |-> <<>>]

\* the provider after a call of authorize: it holds a security context
\* handle (ctxt), whatever the round answered
authorize(p, o) == [p EXCEPT !.ctxt = TRUE]

\* _BaseAuth.reset(): back to the unauthorized state, no context handle
reset(p) == [p EXCEPT !.ctxt = FALSE]

----------------------------------------------------------------------------
(* The context API.  Each function is an operator from its arguments (and  *)
(* the provider's answer, where it asks the provider) to a call record:    *)
(*   ctx      the context after the call                                   *)
(*   outcome  "return" or "raise"                                          *)
(*   value    the value returned (PyNone when the call raised or the       *)
(*            function ends without a return statement)                    *)
(*   exc      the exception raised, "" if none                             *)
(*   called   whether the provider's authorize was invoked                 *)
(*   data     what authorize was given                                     *)
(*   round    what authorize answered                                      *)

Return(ctx, value) ==
    [ ctx |-> ctx, outcome |-> "return", value |-> value, exc |-> "",
      called |-> FALSE, data |-> PyNone, round |-> NoRound ]

Raise(ctx, exc) ==
    [ ctx |-> ctx, outcome |-> "raise", value |-> PyNone, exc |-> exc,
      called |-> FALSE, data |-> PyNone, round |-> NoRound ]

\* the dict literal of authGSSClientInit
ClientCtx(service, gssflags) ==
    [ ca |-> ClientAuth("Kerberos", PyNone, PyStr(service), PyInt(gssflags)),
      service |-> service, gssflags |-> gssflags, response |-> PyNone ]

\* a server context of the layout of authGSSServerInit's dict literal,
\* holding the provider ca
ServerCtx(ca, service) ==
    [ ca |-> ca, service |-> service, response |-> PyNone ]

\* authGSSClientInit(service, gssflags); old is the context the caller held
authGSSClientInit_call(old, service, gssflags) ==
    IF "sspi" \notin ModuleNames THEN Raise(old, "NameError")
    ELSE Return(ClientCtx(service, gssflags), PyInt(AUTH_GSS_CONTINUE))

\* authGSSServerInit(service): the names sspi and gssflags are looked up
\* in that order; sspi.ClientAuth takes no keyword spn
authGSSServerInit_call(old, service) ==
    IF "sspi" \notin ModuleNames THEN Raise(old, "NameError")
    ELSE IF "gssflags" \notin ModuleNames THEN Raise(old, "NameError")
    ELSE Raise(old, "TypeError")

\* a mapping that takes every non-negative err for completion
StepStatus_NonNegative(err) ==
    IF err >= 0 THEN AUTH_GSS_COMPLETE ELSE AUTH_GSS_CONTINUE

\* `return AUTH_GSS_COMPLETE if err == 0 else AUTH_GSS_CONTINUE`
StepStatus(err) ==
    IF err = 0 THEN AUTH_GSS_COMPLETE ELSE AUTH_GSS_CONTINUE

\* a step that drops the old token before it asks the provider, so that
\* a round that raises leaves the context without a token
Step_call_DropsTokenFirst(ctx, challenge, o) ==
    LET dec == IF Truthy(challenge) THEN Decoded[challenge.val]
               ELSE [ok |-> TRUE, val |-> <<>>]
        data == IF Truthy(challenge) THEN PyStr(dec.val) ELSE PyNone
    IN  IF ~dec.ok THEN Raise(ctx, "binascii.Error")
        ELSE IF o.raised THEN
            [ Raise([ctx EXCEPT !.ca = authorize(@, o), !.response = PyNone],
                    "pywintypes.error")
                EXCEPT !.called = TRUE, !.data = data, !.round = o ]
        ELSE
            [ Return([ctx EXCEPT !.ca = authorize(@, o),
                                 !.response = SecBufferDesc(o.buf)],
                     PyInt(StepStatus(o.err)))
                EXCEPT !.called = TRUE, !.data = data, !.round = o ]

\* the body shared by authGSSClientStep and authGSSServerStep
Step_call(ctx, challenge, o) ==
    LET dec == IF Truthy(challenge) THEN Decoded[challenge.val]
               ELSE [ok |-> TRUE, val |-> <<>>]
        data == IF Truthy(challenge) THEN PyStr(dec.val) ELSE PyNone
    IN  IF ~dec.ok THEN Raise(ctx, "binascii.Error")
        ELSE IF o.raised THEN
            [ Raise([ctx EXCEPT !.ca = authorize(@, o)], "pywintypes.error")
                EXCEPT !.called = TRUE, !.data = data, !.round = o ]
        ELSE
            [ Return([ctx EXCEPT !.ca = authorize(@, o),
                                 !.response = SecBufferDesc(o.buf)],
                     PyInt(StepStatus(o.err)))
                EXCEPT !.called = TRUE, !.data = data, !.round = o ]

authGSSClientStep_call(ctx, challenge, o) == Step_call(ctx, challenge, o)

authGSSServerStep_call(ctx, challenge, o) == Step_call(ctx, challenge, o)

\* a lookup that takes a missing token for an empty one
ResponseBuffer_Lenient(response) ==
    [ok |-> TRUE, exc |-> "", val |-> IF response.kind = "SecBufferDesc"
                                      THEN response.val ELSE <<>>]

\* `context["response"][0].Buffer`: None is not subscriptable, "" has no
\* item 0, a PySecBufferDesc gives its first buffer's bytes
ResponseBuffer(response) ==
    IF response.kind = "None" THEN [ok |-> FALSE, exc |-> "TypeError", val |-> <<>>]
    ELSE IF response.kind = "str" /\ response.val = <<>>
        THEN [ok |-> FALSE, exc |-> "IndexError", val |-> <<>>]
    ELSE IF response.kind = "str"
        THEN [ok |-> FALSE, exc |-> "AttributeError", val |-> <<>>]
    ELSE [ok |-> TRUE, exc |-> "", val |-> response.val]

\* the body shared by authGSSClientResponse and authGSSServerResponse
Response_call(ctx) ==
    LET data == ResponseBuffer(ctx.response)
    IN  IF ~data.ok THEN Raise(ctx, data.exc)
        ELSE Return(ctx, PyStr(replace(encodestring(data.val), NL)))

authGSSClientResponse_call(ctx) == Response_call(ctx)

authGSSServerResponse_call(ctx) == Response_call(ctx)

\* a cleanup that resets the provider and keeps the last token
authGSSClientClean_KeepsResponse(ctx) ==
    Return([ctx EXCEPT !.ca = reset(@)], PyInt(AUTH_GSS_COMPLETE))

authGSSClientClean_call(ctx) ==
    Return([ctx EXCEPT !.ca = reset(@), !.response = PyNone],
           PyInt(AUTH_GSS_COMPLETE))

\* a cleanup that empties the service entry as well
authGSSServerClean_DropsService(ctx) ==
    Return([ctx EXCEPT !.ca = reset(@), !.response = PyStr(<<>>),
                       !.service = <<>>], PyNone)

\* no return statement: the call returns None
authGSSServerClean_call(ctx) ==
    Return([ctx EXCEPT !.ca = reset(@), !.response = PyStr(<<>>)], PyNone)

----------------------------------------------------------------------------
(* The API as a state machine: one client context and one server context,  *)
(* and any sequence of calls on them.  authGSSClientInit and               *)
(* authGSSServerInit hand out no context (see above), so the contexts the  *)
(* other functions are given are built by the caller: dicts of the layout  *)
(* the two Init functions write, around a ClientAuth and a ServerAuth.     *)

Saturate(n) == IF n < MaxResets THEN n + 1 ELSE n

\* the record of a call in `last`: the call record without the context
Called(op, args, r) ==
    [ op |-> op, args |-> args, outcome |-> r.outcome, value |-> r.value,
      exc |-> r.exc, called |-> r.called, data |-> r.data, round |-> r.round ]

NoCall == Called("", <<>>, Return(PyNone, PyNone))

\* the service of the contexts the caller built
HttpService == <<"h","t","t","p","@","a">>

InitAPI ==
    /\ cctx = ClientCtx(HttpService, GSS_C_MUTUAL_FLAG + GSS_C_SEQUENCE_FLAG)
    /\ sctx = ServerCtx(ServerAuth("Kerberos", PyStr(HttpService)), HttpService)
    /\ last = NoCall
    /\ resets = [client |-> 0, server |-> 0]

authGSSClientInit ==
    \E service \in Services, gssflags \in FlagInputs :
        LET r == authGSSClientInit_call(cctx, service, gssflags)
        IN  /\ cctx' = r.ctx
            /\ last' = Called("authGSSClientInit",
                              <<PyStr(service), PyInt(gssflags)>>, r)
            /\ resets' = IF r.outcome = "return"
                         THEN [resets EXCEPT !.client = 0] ELSE resets
            /\ UNCHANGED sctx
            /\ UNCHANGED validateVars

authGSSServerInit ==
    \E service \in Services :
        LET r == authGSSServerInit_call(sctx, service)
        IN  /\ sctx' = r.ctx
            /\ last' = Called("authGSSServerInit", <<PyStr(service)>>, r)
            /\ resets' = IF r.outcome = "return"
                         THEN [resets EXCEPT !.server = 0] ELSE resets
            /\ UNCHANGED cctx
            /\ UNCHANGED validateVars

authGSSClientStep ==
    \E challenge \in Challenges, o \in ProviderOutcomes :
        LET r == authGSSClientStep_call(cctx, challenge, o)
        IN  /\ cctx' = r.ctx
            /\ last' = Called("authGSSClientStep", <<challenge>>, r)
            /\ UNCHANGED <<sctx, resets>>
            /\ UNCHANGED validateVars

authGSSServerStep ==
    \E challenge \in Challenges, o \in ProviderOutcomes :
        LET r == authGSSServerStep_call(sctx, challenge, o)
        IN  /\ sctx' = r.ctx
            /\ last' = Called("authGSSServerStep", <<challenge>>, r)
            /\ UNCHANGED <<cctx, resets>>
            /\ UNCHANGED validateVars

authGSSClientResponse ==
    LET r == authGSSClientResponse_call(cctx)
    IN  /\ cctx' = r.ctx
        /\ last' = Called("authGSSClientResponse", <<>>, r)
        /\ UNCHANGED <<sctx, resets>>
        /\ UNCHANGED validateVars

authGSSServerResponse ==
    LET r == authGSSServerResponse_call(sctx)
    IN  /\ sctx' = r.ctx
        /\ last' = Called("authGSSServerResponse", <<>>, r)
        /\ UNCHANGED <<cctx, resets>>
        /\ UNCHANGED validateVars

\* a cleanup that also clears the token of the server context, as it
\* would with one response slot shared by the contexts
authGSSClientClean_SharedResponse ==
    LET r == authGSSClientClean_call(cctx)
    IN  /\ cctx' = r.ctx
        /\ sctx' = [sctx EXCEPT !.response = PyNone]
        /\ last' = Called("authGSSClientClean", <<>>, r)
        /\ resets' = [resets EXCEPT !.client = Saturate(@)]
        /\ UNCHANGED validateVars

authGSSClientClean ==
    LET r == authGSSClientClean_call(cctx)
    IN  /\ cctx' = r.ctx
        /\ last' = Called("authGSSClientClean", <<>>, r)
        /\ resets' = [resets EXCEPT !.client = Saturate(@)]
        /\ UNCHANGED sctx
        /\ UNCHANGED validateVars

authGSSServerClean ==
    LET r == authGSSServerClean_call(sctx)
    IN  /\ sctx' = r.ctx
        /\ last' = Called("authGSSServerClean", <<>>, r)
        /\ resets' = [resets EXCEPT !.server = Saturate(@)]
        /\ UNCHANGED cctx
        /\ UNCHANGED validateVars

----------------------------------------------------------------------------
(* validate(user, pswd, service, default_realm), statement by statement.   *)
(* vpc names the line about to run; "returned" and "propagated" are the    *)
(* two ways the call ends (a value, or an exception in the caller).        *)

\* a local not yet assigned
Unbound ==
    [ cls |-> "", pkg_name |-> "", auth_info |-> PyNone, spn |-> PyNone,
      scflags |-> PyNone, ctxt |-> FALSE ]

\* the tuple `user, default_realm, pswd` of line 59
AuthInfo(user, default_realm, pswd) ==
    [kind |-> "tuple", val |-> <<user, default_realm, pswd>>]

Users == {"alice"}
Passwords == {"right", "wrong"}
Realms == {"", "EXAMPLE.COM"}

NoLog ==
    [ rounds |-> 0,          \* completed passes through the loop body
      raised |-> "",         \* the line whose call raised, "" if none
      cont |-> TRUE,         \* every round so far returned SEC_I_CONTINUE_NEEDED
      cerr |-> PyNone,       \* err of the last client round that returned
      serr |-> PyNone,       \* err of the last server round that returned
      cin |-> PyNone,        \* data given to the last client round
      cout |-> PyNone,       \* sec_buffer of the last client round
      sin |-> PyNone,        \* data given to the last server round
      sout |-> PyNone ]      \* sec_buffer of the last server round

InitValidate ==
    /\ vpc = "line60"
    /\ vca = Unbound
    /\ vsa = Unbound
    /\ verr = PyNone
    /\ vdata = PyNone
    /\ vresult = TRUE
    /\ vlog = NoLog

\* a try statement that starts before the constructors: their exceptions
\* are caught too and validate returns False
Propagate_Caught(line) ==
    [pc |-> "returned", result |-> FALSE, raised |-> line]

\* an exception raised outside the try statement leaves validate
Propagate(line) ==
    [pc |-> "propagated", result |-> vresult, raised |-> line]

\* a handler that catches only the module's own KrbError: what the
\* providers raise leaves validate
Except_KrbErrorOnly(line) ==
    [pc |-> "propagated", result |-> vresult, raised |-> line]

\* lines 69-70: the bare except around the loop catches whatever a step
\* raises, sets result = False and falls through to the return
Except(line) ==
    [pc |-> "returned", result |-> FALSE, raised |-> line]

\* line 66: `while err != 0` (None != 0 holds)
LoopTest(err) == err # PyInt(0)

\* lines 59-60: ca = ClientAuth("Kerberos", auth_info = auth_info)
validate_ClientAuth ==
    /\ vpc = "line60"
    /\ \E user \in Users, realm \in Realms, pswd \in Passwords, ok \in BOOLEAN :
        IF ok
        THEN /\ vca' = ClientAuth("Kerberos", AuthInfo(user, realm, pswd),
                                  PyNone, PyNone)
             /\ vpc' = "line61"
             /\ UNCHANGED <<vresult, vlog>>
        ELSE LET x == Propagate("line60")
             IN  /\ vpc' = x.pc
                 /\ vresult' = x.result
                 /\ vlog' = [vlog EXCEPT !.raised = x.raised]
                 /\ UNCHANGED vca
    /\ UNCHANGED <<vsa, verr, vdata>>
    /\ UNCHANGED apiVars

\* lines 61-64: sa = ServerAuth("Kerberos"); data = err = None; result = True
validate_ServerAuth ==
    /\ vpc = "line61"
    /\ \E ok \in BOOLEAN :
        IF ok
        THEN /\ vsa' = ServerAuth("Kerberos", PyNone)
             /\ verr' = PyNone
             /\ vdata' = PyNone
             /\ vresult' = TRUE
             /\ vpc' = "line66"
             /\ UNCHANGED vlog
        ELSE LET x == Propagate("line61")
             IN  /\ vpc' = x.pc
                 /\ vresult' = x.result
                 /\ vlog' = [vlog EXCEPT !.raised = x.raised]
                 /\ UNCHANGED <<vsa, verr, vdata>>
    /\ UNCHANGED vca
    /\ UNCHANGED apiVars

\* line 66, and line 72 when the loop is left
validate_while ==
    /\ vpc = "line66"
    /\ IF LoopTest(verr)
       THEN vlog.rounds < MaxLoop /\ vpc' = "line67"
       ELSE vpc' = "returned"
    /\ UNCHANGED <<vca, vsa, verr, vdata, vresult, vlog>>
    /\ UNCHANGED apiVars

\* a client step that does not rebind data (`err, token = ...`): the
\* server is then given what the client was given
validate_client_step_KeepsData ==
    /\ vpc = "line67"
    /\ \E o \in ProviderOutcomes :
        /\ vca' = authorize(vca, o)
        /\ IF o.raised
           THEN LET x == Except("line67")
                IN  /\ vpc' = x.pc
                    /\ vresult' = x.result
                    /\ vlog' = [vlog EXCEPT !.raised = x.raised, !.cin = vdata,
                                            !.cont = FALSE]
                    /\ UNCHANGED <<verr, vdata>>
           ELSE /\ verr' = PyInt(o.err)
                /\ vpc' = "line68"
                /\ vlog' = [vlog EXCEPT !.cin = vdata, !.cerr = PyInt(o.err),
                                        !.cout = SecBufferDesc(o.buf),
                                        !.cont = @ /\ o.err = 590610]
                /\ UNCHANGED <<vresult, vdata>>
    /\ UNCHANGED vsa
    /\ UNCHANGED apiVars

\* line 67: err, data = ca.authorize(data)
validate_client_step ==
    /\ vpc = "line67"
    /\ \E o \in ProviderOutcomes :
        /\ vca' = authorize(vca, o)
        /\ IF o.raised
           THEN LET x == Except("line67")
                IN  /\ vpc' = x.pc
                    /\ vresult' = x.result
                    /\ vlog' = [vlog EXCEPT !.raised = x.raised, !.cin = vdata,
                                            !.cont = FALSE]
                    /\ UNCHANGED <<verr, vdata>>
           ELSE /\ verr' = PyInt(o.err)
                /\ vdata' = SecBufferDesc(o.buf)
                /\ vpc' = "line68"
                /\ vlog' = [vlog EXCEPT !.cin = vdata, !.cerr = PyInt(o.err),
                                        !.cout = SecBufferDesc(o.buf),
                                        !.cont = @ /\ o.err = 590610]
                /\ UNCHANGED vresult
    /\ UNCHANGED vsa
    /\ UNCHANGED apiVars

\* line 68: err, data = sa.authorize(data)
validate_server_step ==
    /\ vpc = "line68"
    /\ \E o \in ProviderOutcomes :
        /\ vsa' = authorize(vsa, o)
        /\ IF o.raised
           THEN LET x == Except("line68")
                IN  /\ vpc' = x.pc
                    /\ vresult' = x.result
                    /\ vlog' = [vlog EXCEPT !.raised = x.raised, !.sin = vdata,
                                            !.cont = FALSE]
                    /\ UNCHANGED <<verr, vdata>>
           ELSE /\ verr' = PyInt(o.err)
                /\ vdata' = SecBufferDesc(o.buf)
                /\ vpc' = "line66"
                /\ vlog' = [vlog EXCEPT !.sin = vdata, !.serr = PyInt(o.err),
                                        !.sout = SecBufferDesc(o.buf),
                                        !.cont = @ /\ o.err = 590610,
                                        !.rounds = @ + 1]
                /\ UNCHANGED vresult
    /\ UNCHANGED vca
    /\ UNCHANGED apiVars

----------------------------------------------------------------------------
(* Specifications.                                                         *)

\* validate is not running while the API calls are explored
ValidateIdle ==
    /\ vpc = "idle"
    /\ vca = Unbound
    /\ vsa = Unbound
    /\ verr = PyNone
    /\ vdata = PyNone
    /\ vresult = TRUE
    /\ vlog = NoLog

Init == InitAPI /\ ValidateIdle

Next ==
    \/ authGSSClientInit
    \/ authGSSClientStep
    \/ authGSSClientResponse
    \/ authGSSClientClean
    \/ authGSSServerInit
    \/ authGSSServerStep
    \/ authGSSServerResponse
    \/ authGSSServerClean

Spec == Init /\ [][Next]_vars

ValidateInit == InitAPI /\ InitValidate

ValidateNext ==
    \/ validate_ClientAuth
    \/ validate_ServerAuth
    \/ validate_while
    \/ validate_client_step
    \/ validate_server_step

ValidateSpec == ValidateInit /\ [][ValidateNext]_vars

----------------------------------------------------------------------------
(* Claims.                                                                 *)

StepOps == {"authGSSClientStep", "authGSSServerStep"}

StatusOps ==
    { "authGSSClientInit", "authGSSClientStep", "authGSSClientClean",
      "authGSSServerInit", "authGSSServerStep", "authGSSServerClean" }

\* a context that holds no token: response is None, or "" after serverClean
NoToken(ctx) == ctx.response = PyNone \/ ctx.response = PyStr(<<>>)

\* a round in which the provider failed: it raised, or its result code is
\* a failure status
ProviderFailed(o) == o.raised \/ o.err < 0

\* C1 (as claimed): when validate returns True, the last client round and
\* the last server round both returned the 'complete' result code 0.
C1_TrueMeansBothComplete ==
    (vpc = "returned" /\ vresult = TRUE)
        => (vlog.cerr = PyInt(0) /\ vlog.serr = PyInt(0))

\* C2 (as claimed): with providers that answer CONTINUE in every round and
\* never raise, validate runs at most 10 rounds (and then returns False).
C2_RoundsCapped ==
    vlog.cont => (vlog.rounds <= 10 /\ (vpc = "line67" => vlog.rounds < 10))

\* C3: once a client or server round inside the loop has raised, in any
\* round, validate has returned False; the exception does not reach the
\* caller.
C3_StepErrorReturnsFalse ==
    (vlog.raised \in {"line67", "line68"})
        => (vpc = "returned" /\ vresult = FALSE)

\* a server round raised after at least one full round
C3_Witness ==
    /\ vlog.raised = "line68"
    /\ vlog.rounds >= 1
    /\ vpc = "returned"
    /\ vresult = FALSE

\* C4 (as claimed): a clientStep on a context that has been cleaned raises,
\* without a provider round and without storing a token.
C4_StepAfterCleanRaises ==
    (last.op = "authGSSClientStep" /\ resets.client > 0)
        => (last.outcome = "raise" /\ ~last.called /\ cctx.response = PyNone)

\* C5: clientResponse and serverResponse on a context without a token
\* (fresh, or cleaned) raise and return no text.
C5_ResponseWithoutTokenRaises ==
    /\ (last.op = "authGSSClientResponse" /\ NoToken(cctx))
           => (last.outcome = "raise" /\ last.exc # "" /\ last.value = PyNone)
    /\ (last.op = "authGSSServerResponse" /\ NoToken(sctx))
           => (last.outcome = "raise" /\ last.exc # "" /\ last.value = PyNone)

\* serverResponse on a cleaned server context (response "")
C5_Witness ==
    /\ last.op = "authGSSServerResponse"
    /\ resets.server > 0
    /\ sctx.response = PyStr(<<>>)
    /\ last.outcome = "raise"

\* C6 (as claimed): a Step whose provider round failed, by raising or by a
\* failure result code, raises; it returns neither CONTINUE nor COMPLETE.
C6_ProviderFailureRaises ==
    (last.op \in StepOps /\ last.called /\ ProviderFailed(last.round))
        => last.outcome = "raise"

\* C7: a Step whose provider round returned (err, sec_buffer) stores
\* sec_buffer as the context's response and returns COMPLETE when err is 0
\* and CONTINUE for any other err.
C7_StepStoresTokenAndMapsCode ==
    /\ (last.op = "authGSSClientStep" /\ last.called /\ ~last.round.raised)
           => /\ last.outcome = "return"
              /\ cctx.response = SecBufferDesc(last.round.buf)
              /\ last.value = IF last.round.err = 0 THEN PyInt(1) ELSE PyInt(0)
    /\ (last.op = "authGSSServerStep" /\ last.called /\ ~last.round.raised)
           => /\ last.outcome = "return"
              /\ sctx.response = SecBufferDesc(last.round.buf)
              /\ last.value = IF last.round.err = 0 THEN PyInt(1) ELSE PyInt(0)

\* a server step of a longest token whose round asked for another round
C7_Witness ==
    /\ last.op = "authGSSServerStep"
    /\ last.called
    /\ last.round.err = 590610
    /\ last.value = PyInt(0)
    /\ sctx.response = SecBufferDesc(Token(MaxTokLen))

\* C8: every clientClean returns COMPLETE and leaves the context without a
\* token, whatever the context's state; and a clientClean right after a
\* clientClean returns the same and leaves the context as it was.
C8_CleanIdempotent ==
    [][ last'.op = "authGSSClientClean"
          => /\ last'.outcome = "return"
             /\ last'.value = PyInt(AUTH_GSS_COMPLETE)
             /\ cctx'.response = PyNone
             /\ last.op = "authGSSClientClean"
                  => (cctx' = cctx /\ last'.value = last.value
                                   /\ last'.outcome = last.outcome) ]_vars

\* clientClean has run at least twice, the last call being a clientClean
C8_Witness ==
    /\ last.op = "authGSSClientClean"
    /\ resets.client >= 2
    /\ cctx.response = PyNone
    /\ ~cctx.ca.ctxt

\* C9 (as claimed): every Init, Step or Clean call that returns, returns
\* the status 0 or 1.
C9_StatusIsZeroOrOne ==
    (last.op \in StatusOps /\ last.outcome = "return")
        => last.value \in {PyInt(AUTH_GSS_CONTINUE), PyInt(AUTH_GSS_COMPLETE)}

\* C10 (as claimed): clientInit(service, flags) returns CONTINUE and a new
\* context without a token that records service and flags and holds a
\* "Kerberos" provider made with that service and those flags.
C10_ClientInitReturnsContext ==
    last.op = "authGSSClientInit"
        => /\ last.outcome = "return"
           /\ last.value = PyInt(AUTH_GSS_CONTINUE)
           /\ cctx = [ ca |-> ClientAuth("Kerberos", PyNone,
                                         last.args[1], last.args[2]),
                       service |-> last.args[1].val,
                       gssflags |-> last.args[2].val[1],
                       response |-> PyNone ]

\* C11 (as claimed): serverInit(service) returns CONTINUE and a new server
\* context without a token that records the service.
C11_ServerInitReturnsContext ==
    last.op = "authGSSServerInit"
        => /\ last.outcome = "return"
           /\ last.value = PyInt(AUTH_GSS_CONTINUE)
           /\ sctx.response = PyNone
           /\ sctx.service = last.args[1].val

ResponseOps == {"authGSSClientResponse", "authGSSServerResponse"}

\* the characters of a text
Chars(text) == { text[i] : i \in 1..Len(text) }

\* C12 (as claimed): the text a Response returns holds no newline, and
\* given as the challenge of the other side's next Step it makes that
\* side's provider round receive exactly the bytes B of the token, for
\* every B, the empty one included.
C12_WireRoundTripEveryToken ==
    [][ /\ (last'.op \in ResponseOps /\ last'.outcome = "return")
               => NL \notin Chars(last'.value.val)
        /\ ( /\ last.op = "authGSSClientResponse"
             /\ last.outcome = "return"
             /\ last'.op = "authGSSServerStep"
             /\ last'.args[1] = last.value )
               => (last'.called /\ last'.data = PyStr(cctx.response.val))
        /\ ( /\ last.op = "authGSSServerResponse"
             /\ last.outcome = "return"
             /\ last'.op = "authGSSClientStep"
             /\ last'.args[1] = last.value )
               => (last'.called /\ last'.data = PyStr(sctx.response.val)) ]_vars

\* what the other side's round is given for the token B: B itself, and
\* None (no input) when B is empty
Received(B) == IF B = <<>> THEN PyNone ELSE PyStr(B)

\* C12 (amended): as above for every non-empty B; for the empty token the
\* Response text is empty and the other side's round receives None.
C12_WireRoundTripNonEmpty ==
    [][ /\ (last'.op \in ResponseOps /\ last'.outcome = "return")
               => NL \notin Chars(last'.value.val)
        /\ ( /\ last.op = "authGSSClientResponse"
             /\ last.outcome = "return"
             /\ last'.op = "authGSSServerStep"
             /\ last'.args[1] = last.value )
               => (last'.called /\ last'.data = Received(cctx.response.val))
        /\ ( /\ last.op = "authGSSServerResponse"
             /\ last.outcome = "return"
             /\ last'.op = "authGSSClientStep"
             /\ last'.args[1] = last.value )
               => (last'.called /\ last'.data = Received(sctx.response.val)) ]_vars

\* the server's round was given the longest token, which the client holds
C12_Witness ==
    /\ last.op = "authGSSServerStep"
    /\ last.called
    /\ cctx.response = SecBufferDesc(Token(MaxTokLen))
    /\ last.data = PyStr(Token(MaxTokLen))
    /\ NL \notin Chars(last.args[1].val)

ClientOps ==
    { "authGSSClientInit", "authGSSClientStep", "authGSSClientResponse",
      "authGSSClientClean" }

ServerOps ==
    { "authGSSServerInit", "authGSSServerStep", "authGSSServerResponse",
      "authGSSServerClean" }

\* C13: a call on the client context leaves the server context (token,
\* service, provider and its state, reset count) as it was, and a call on
\* the server context leaves the client context (token, service, flags,
\* provider) as it was; so the calls on one context see and yield the same
\* whatever calls on the other context come in between.
C13_ContextsIndependent ==
    [][ /\ last'.op \in ClientOps
               => (sctx' = sctx /\ resets'.server = resets.server)
        /\ last'.op \in ServerOps
               => (cctx' = cctx /\ resets'.client = resets.client) ]_vars

\* the client context was cleaned while the server context was in the
\* middle of a negotiation, holding a token
C13_Witness ==
    /\ last.op = "authGSSClientClean"
    /\ resets.client > 0
    /\ resets.server = 0
    /\ sctx.ca.ctxt
    /\ sctx.response = SecBufferDesc(Token(MaxTokLen))

\* C14 (as claimed): the provider of a context is reset at most once, and
\* no Step reaches the provider of a context once it has been reset.
C14_ProviderReleasedOnce ==
    /\ resets.client <= 1
    /\ resets.server <= 1
    /\ (last.op = "authGSSClientStep" /\ resets.client > 0) => ~last.called
    /\ (last.op = "authGSSServerStep" /\ resets.server > 0) => ~last.called

\* C15: in validate every round runs the client step first and then the
\* server step.  The client round is given None in the first round and
\* otherwise the sec_buffer the server returned in the round before; the
\* server round is given the sec_buffer the client returned in the same
\* round; and when the client round raises, the server is not called:
\* validate is over.
C15_RoundsOrdered ==
    [][ /\ vpc \notin {"returned", "propagated"}
        /\ vpc' = "line68" => vpc = "line67"
        /\ vpc = "line67"
               => /\ vlog'.cin = IF vlog.rounds = 0 THEN PyNone ELSE vlog.sout
                  /\ vsa' = vsa
                  /\ vlog'.sin = vlog.sin
                  /\ vlog'.raised = "line67" => vpc' = "returned"
        /\ vpc = "line68"
               => /\ vlog'.sin = vlog.cout
                  /\ vlog.cout.kind = "SecBufferDesc"
                  /\ vca' = vca ]_vars

\* the third round: the client was given the server's last sec_buffer and
\* the server the client's
C15_Witness ==
    /\ vpc = "line66"
    /\ vlog.rounds = 3
    /\ vlog.cin # PyNone
    /\ vlog.sin = vlog.cout
    /\ vlog.cout # vlog.sout

\* C16: a Step that raises (in the provider round, or before it) leaves
\* the token of the context as it was, and a Response that returns gives a
\* text that decodes to the token the context holds, i.e. the token of
\* the last Step that did not raise.
C16_FailedStepKeepsToken ==
    [][ /\ (last'.op \in StepOps /\ last'.outcome = "raise")
               => (cctx'.response = cctx.response
                       /\ sctx'.response = sctx.response)
        /\ (last'.op = "authGSSClientResponse" /\ last'.outcome = "return")
               => /\ cctx.response.kind = "SecBufferDesc"
                  /\ decodestring(last'.value.val)
                         = [ok |-> TRUE, val |-> cctx.response.val]
        /\ (last'.op = "authGSSServerResponse" /\ last'.outcome = "return")
               => /\ sctx.response.kind = "SecBufferDesc"
                  /\ decodestring(last'.value.val)
                         = [ok |-> TRUE, val |-> sctx.response.val] ]_vars

\* a client step whose provider round raised, on a context that holds the
\* token of an earlier step
C16_Witness ==
    /\ last.op = "authGSSClientStep"
    /\ last.called
    /\ last.round.raised
    /\ last.outcome = "raise"
    /\ cctx.response = SecBufferDesc(Token(MaxTokLen))

InitOps == {"authGSSClientInit", "authGSSServerInit"}

\* what a provider was constructed with
Construction(p) == <<p.cls, p.pkg_name, p.auth_info, p.spn, p.scflags>>

\* C17: no Step, Response or Clean call, returning or raising, changes a
\* context's service or flags or what its provider was constructed with;
\* the token and the provider's state change only in a Step or a Clean of
\* that context, and a Response changes nothing.
C17_ServiceAndFlagsFixed ==
    [][ ~(last'.op \in InitOps /\ last'.outcome = "return")
          => /\ cctx'.service = cctx.service
             /\ cctx'.gssflags = cctx.gssflags
             /\ sctx'.service = sctx.service
             /\ Construction(cctx'.ca) = Construction(cctx.ca)
             /\ Construction(sctx'.ca) = Construction(sctx.ca)
             /\ cctx' # cctx
                  => last'.op \in {"authGSSClientStep", "authGSSClientClean"}
             /\ sctx' # sctx
                  => last'.op \in {"authGSSServerStep", "authGSSServerClean"} ]_vars

\* both contexts have been stepped and the server context cleaned; they
\* still name the service and flags they were built with
C17_Witness ==
    /\ last.op = "authGSSServerClean"
    /\ resets.server > 0
    /\ cctx.response.kind = "SecBufferDesc"
    /\ cctx.ca.ctxt
    /\ cctx.service = HttpService
    /\ cctx.gssflags = GSS_C_MUTUAL_FLAG + GSS_C_SEQUENCE_FLAG
    /\ sctx.service = HttpService

\* C18 (as claimed): the context serverInit(service) creates holds an
\* acceptor-side provider (a ServerAuth) bound to that service.
C18_ServerInitHoldsAcceptor ==
    last.op = "authGSSServerInit"
        => /\ last.outcome = "return"
           /\ sctx.ca.cls = "ServerAuth"
           /\ sctx.ca.spn = last.args[1]

\* C19: an exception raised by the ClientAuth or the ServerAuth
\* constructor (lines 60, 61) leaves validate as an exception; validate
\* does not return, neither False nor anything else.
C19_ConstructorErrorPropagates ==
    (vlog.raised \in {"line60", "line61"})
        => (vpc = "propagated" /\ vlog.rounds = 0 /\ vlog.cin = PyNone
                /\ ~vca.ctxt)

\* the ServerAuth constructor raised, after the ClientAuth was built
C19_Witness ==
    /\ vlog.raised = "line61"
    /\ vpc = "propagated"
    /\ vca.cls = "ClientAuth"
    /\ vsa = Unbound

====
